---- MODULE Spec2Model ----
(***************************************************************************)
(* nav2_route: the route planner (a Dijkstra search over a routing graph   *)
(* whose edges are priced by the static edge cost or by the edge scorer's  *)
(* plugins), the edge scorer, and the AdjustEdgesScorer plugin with its    *)
(* adjust_edges service callback.                                          *)
(*                                                                         *)
(* Costs are floats in the source; the model keeps them to small integers, *)
(* which floats represent exactly, so sums and comparisons are the code's. *)
(***************************************************************************)
EXTENDS Integers, Sequences, FiniteSets

\* ------------------------------------------------------------------ bounds

\* Nodes of the graphs explored: node ids (and indices) 1..NumNodes.
NumNodes == 4
\* Calls of findRoute in one behaviour.
MaxCalls == 3
\* Ids in one blocked-id list.
MaxBlocked == 2
\* Entries in each list of a request of the adjust_edges service.
MaxRequestLen == 1
\* Requests served by the adjust_edges service in one behaviour.
MaxRequests == 2
\* Largest configured max_iterations parameter explored (0 is "unbounded").
MaxIterParam == 3
\* Cap on the expansion loop's iterations in the model.  The loop of the
\* source has no bound but max_iterations_; the cap only cuts the runs of a
\* negative cycle, which never end.
MaxIterations == 16

\* std::numeric_limits<int>::max()
IntMax == 2147483647
\* std::numeric_limits<float>::max(), the reset value of integrated_cost
\* ("+infinity" in the data model); larger than any cost the model reaches.
Infinity == 1000000
\* The cost an edge-cost plugin is handed before it scores: EdgeScorer::score
\* starts each plugin's contribution at zero.
DefaultCost == 0

VARIABLES
    graph,               \* Graph: [nodes, edges]; fixed after construction
    plugins,             \* EdgeScorer::plugins_, the names of the loaded plugins
    tie_policy,          \* how NodeQueue orders elements of equal cost
    max_iterations_,     \* RoutePlanner::max_iterations_
    closed_edges_,       \* AdjustEdgesScorer::closed_edges_
    dynamic_penalties_,  \* AdjustEdgesScorer::dynamic_penalties_
    search_state,        \* node -> SearchState
    queue_,              \* RoutePlanner::queue_
    goal_id_,            \* RoutePlanner::goal_id_
    pc,                  \* where the findRoute call in flight is
    call,                \* the arguments of the call: start, goal, blocked_ids
    loc,                 \* the locals of findShortestGraphTraversal
    result,              \* what the last finished call returned or threw
    history,             \* one record per finished call
    cb,                  \* the closedEdgesCb invocation in flight
    requests,            \* the requests served so far, each with the number of
                         \* calls finished before it
    torn,                \* a score saw a request half applied
    costmap_scorer,      \* CostmapScorer's members
    scoring              \* the CostmapScorer::score invocation in flight

vars == <<graph, plugins, tie_policy, max_iterations_, closed_edges_,
          dynamic_penalties_, search_state, queue_, goal_id_, pc, call, loc,
          result, history, cb, requests, torn, costmap_scorer, scoring>>

\* The variables of the planner and of the AdjustEdgesScorer.
PlannerVars ==
    <<graph, plugins, tie_policy, max_iterations_, closed_edges_,
      dynamic_penalties_, search_state, queue_, goal_id_, pc, call, loc,
      result, history, cb, requests, torn>>

\* ------------------------------------------------------------------- graph

Nodes == 1 .. NumNodes

\* The directed connections a graph of the model may hold, in the order the
\* graph stores them: a chain 1-2-3-4, the direct edge 1-4, the shortcut 1-3
\* and the back edge 3-2 (a cycle).  Edge k of the list has edge id
\* NumNodes + k: ids are unique over nodes and edges.
TemplateEdges ==
    << <<1, 2>>, <<2, 3>>, <<3, 4>>, <<1, 4>>, <<1, 3>>, <<3, 2>> >>

EdgeIds == { NumNodes + k : k \in 1 .. Len(TemplateEdges) }

\* Edge: edgeid, start, end, edge_cost.{cost, overridable}
Edge(k, cost, overridable) ==
    [ edgeid      |-> NumNodes + k,
      start       |-> TemplateEdges[k][1],
      end         |-> TemplateEdges[k][2],
      cost        |-> cost,
      overridable |-> overridable ]

RECURSIVE SeqOfChoice(_, _)
\* The edges a choice keeps, in template order.  choice[k] is "none" or
\* <<cost, overridable>>.
SeqOfChoice(choice, k) ==
    IF k = 0 THEN << >>
    ELSE LET rest == SeqOfChoice(choice, k - 1)
         IN  IF choice[k] = "none" THEN rest
             ELSE Append(rest, Edge(k, choice[k][1], choice[k][2]))

\* Every graph that holds some of the template's edges numbered in `slots`,
\* each with a cost from `costs` and an overridable flag from `flags`.
GraphsOn(slots, costs, flags) ==
    { [ nodes |-> Nodes, edges |-> SeqOfChoice(choice, Len(TemplateEdges)) ] :
        choice \in { c \in [ 1 .. Len(TemplateEdges) ->
                                {"none"} \cup (costs \X flags) ] :
                         \A k \in 1 .. Len(TemplateEdges) :
                             k \notin slots => c[k] = "none" } }

\* The same over all of the template.
GraphsOver(costs, flags) == GraphsOn(1 .. Len(TemplateEdges), costs, flags)

\* Graph::empty()
EmptyGraph == [ nodes |-> {}, edges |-> << >> ]

\* EdgePtr: the index of an edge in graph.edges; 0 is nullptr.
NullEdge == 0

EdgePtrs(g) == 1 .. Len(g.edges)

\* ------------------------------------------------------------ search state

\* SearchState::reset()
SearchStateReset ==
    [ parent_edge |-> NullEdge, integrated_cost |-> Infinity,
      traversal_cost |-> Infinity ]

\* RoutePlanner::resetSearchStates
resetSearchStates(g) == [ n \in g.nodes |-> SearchStateReset ]

\* ------------------------------------------------------------------- queue

\* addNode scheduling the element twice.
addNodeTwice(q, cost, node) == Append(Append(q, <<cost, node>>), <<cost, node>>)

\* RoutePlanner::addNode
addNode(q, cost, node) == Append(q, <<cost, node>>)

\* The position of queue_.top().  NodeQueue orders by ascending cost with no
\* second key; among equal costs the order is the priority queue's own: fixed
\* for a given history of pushes and pops, not specified.  The model fixes it
\* at construction to oldest first or newest first.
TopIndex(q, policy) ==
    LET least == { i \in 1 .. Len(q) : \A j \in 1 .. Len(q) : q[i][1] <= q[j][1] }
    IN  IF policy = "fifo"
        THEN CHOOSE i \in least : \A j \in least : i <= j
        ELSE CHOOSE i \in least : \A j \in least : i >= j

RemoveAt(q, i) == [ j \in 1 .. Len(q) - 1 |-> IF j < i THEN q[j] ELSE q[j + 1] ]

\* The newest element instead of the cheapest: a stack for a priority queue.
getNextNodeNewest(q, policy) ==
    [ cost |-> q[Len(q)][1], node |-> q[Len(q)][2], rest |-> RemoveAt(q, Len(q)) ]

\* RoutePlanner::getNextNode: the top element and the queue without it.
getNextNode(q, policy) ==
    LET i == TopIndex(q, policy)
    IN  [ cost |-> q[i][1], node |-> q[i][2], rest |-> RemoveAt(q, i) ]

\* The queue left as it is.
clearQueueSkipped == queue_

\* RoutePlanner::clearQueue
clearQueue == << >>

\* RoutePlanner::isGoal
\* isGoal recognising no node.
isGoalNever(node, goal_id) == FALSE

isGoal(node, goal_id) == node = goal_id

\* RoutePlanner::getEdges: node->neighbors, the edges that start at the node,
\* in the graph's order.
RECURSIVE NeighborsUpTo(_, _, _)
NeighborsUpTo(g, node, k) ==
    IF k = 0 THEN << >>
    ELSE LET rest == NeighborsUpTo(g, node, k - 1)
         IN  IF g.edges[k].start = node THEN Append(rest, k) ELSE rest

getEdges(g, node) == NeighborsUpTo(g, node, Len(g.edges))

\* ----------------------------------------------------------------- scoring

AdjustEdgesScorer == "AdjustEdgesScorer"

\* AdjustEdgesScorer::score without the look-up in dynamic_penalties_.
AdjustEdgesScorerScoreFlat(edge, cost, closed, penalties) ==
    [ valid |-> edge.edgeid \notin closed, cost |-> cost ]

\* AdjustEdgesScorer::score without the test of closed_edges_.
AdjustEdgesScorerScoreOpen(edge, cost, closed, penalties) ==
    [ valid |-> TRUE,
      cost  |-> IF edge.edgeid \in DOMAIN penalties
                THEN penalties[edge.edgeid] ELSE cost ]

\* AdjustEdgesScorer::score: invalid if the edge is closed; the cost is the
\* edge's dynamic penalty if it has one, and is left as handed in otherwise.
AdjustEdgesScorerScore(edge, cost, closed, penalties) ==
    IF edge.edgeid \in closed
    THEN [ valid |-> FALSE, cost |-> cost ]
    ELSE IF edge.edgeid \in DOMAIN penalties
         THEN [ valid |-> TRUE, cost |-> penalties[edge.edgeid] ]
         ELSE [ valid |-> TRUE, cost |-> cost ]

\* EdgeCostFunction::score of the plugin named `plugin`.
PluginScore(plugin, edge, cost, closed, penalties) ==
    AdjustEdgesScorerScore(edge, cost, closed, penalties)

RECURSIVE ScoreFrom(_, _, _, _, _, _)
\* The plugins from position i on, in list order, added to `total`; the first
\* plugin that reports the edge invalid ends the scoring.
ScoreFrom(ps, i, edge, total, closed, penalties) ==
    IF i > Len(ps) THEN [ valid |-> TRUE, cost |-> total ]
    ELSE LET r == PluginScore(ps[i], edge, DefaultCost, closed, penalties)
         IN  IF ~r.valid THEN [ valid |-> FALSE, cost |-> total ]
             ELSE ScoreFrom(ps, i + 1, edge, total + r.cost, closed, penalties)

\* EdgeScorer::score: valid iff every plugin says so, the cost the sum of the
\* plugins' costs.
EdgeScorerScore(ps, edge, closed, penalties) ==
    ScoreFrom(ps, 1, edge, 0, closed, penalties)

\* EdgeScorer::numPlugins
numPlugins(ps) == Len(ps)

\* The test with the end node's id left out.
idBlockedEdgeOnly(edge, blocked_ids) ==
    \E id \in blocked_ids : id = edge.edgeid

\* The blocked-id test of getTraversalCost: some blocked id is the edge's id
\* or the id of the node it ends at.
idBlocked(edge, blocked_ids) ==
    \E id \in blocked_ids : id = edge.edgeid \/ id = edge.end

\* The veto of getTraversalCost left out.
VetoedNever(edge, blocked_ids, goal_id) == FALSE

\* The veto without the exception for the goal.
VetoedAlsoAtGoal(edge, blocked_ids, goal_id) == idBlocked(edge, blocked_ids)

\* The edge is vetoed by the blocked ids: it or its end node is blocked, and
\* its end node is not the goal.
Vetoed(edge, blocked_ids, goal_id) ==
    idBlocked(edge, blocked_ids) /\ ~isGoal(edge.end, goal_id)

\* The test of getTraversalCost without the edge's overridable flag.
StaticallyPricedNoPlugins(edge, ps) == numPlugins(ps) = 0

\* The edge is priced by its static cost, not by the scorer.
StaticallyPriced(edge, ps) == ~edge.overridable \/ numPlugins(ps) = 0

\* The static cost that getTraversalCost refuses with NoValidGraph.
InvalidStaticCost(cost) == cost = 0

\* RoutePlanner::getTraversalCost.  thrown: NoValidGraph was thrown; priced:
\* the edge passed the blocked-id test and a cost was asked for.
getTraversalCost(edge, blocked_ids, goal_id, ps, closed, penalties) ==
    IF Vetoed(edge, blocked_ids, goal_id)
    THEN [ thrown |-> FALSE, valid |-> FALSE, score |-> 0, priced |-> FALSE,
           scored |-> FALSE ]
    ELSE IF StaticallyPriced(edge, ps)
         THEN IF InvalidStaticCost(edge.cost)
              THEN [ thrown |-> TRUE, valid |-> FALSE, score |-> 0, priced |-> TRUE,
                     scored |-> FALSE ]
              ELSE [ thrown |-> FALSE, valid |-> TRUE, score |-> edge.cost,
                     priced |-> TRUE, scored |-> FALSE ]
         ELSE LET r == EdgeScorerScore(ps, edge, closed, penalties)
              IN  [ thrown |-> FALSE, valid |-> r.valid, score |-> r.cost,
                    priced |-> TRUE, scored |-> TRUE ]

\* ------------------------------------------------------------ CostmapScorer

\* nav2_costmap_2d's NO_INFORMATION, the sample of an unknown cell.
Unknown == 255

\* The default of the max_cost parameter.
MaxCostDefault == 253

\* CostmapScorer::configure and prepare: the parameters read, and whether a
\* costmap has been received.
CostmapScorerConfigure(use_maximum, invalid_on_collision, invalid_off_map,
                       max_cost, weight, costmap) ==
    [ use_max_ |-> use_maximum, invalid_on_collision_ |-> invalid_on_collision,
      invalid_off_map_ |-> invalid_off_map, max_cost_ |-> max_cost,
      weight_ |-> weight, costmap_ |-> costmap ]

\* A cost as the quotient the source computes in floats.
Quotient(num, den) == [ num |-> num, den |-> den ]

\* No score in flight.  `cost` is the caller's variable, which score writes
\* only when it returns a cost.
NotScoring ==
    [ pc |-> "idle", line |-> << >>, iter |-> 0, largest_cost |-> 0,
      running_cost |-> 0, idx |-> 0, valid |-> FALSE,
      cost |-> Quotient(0, 1) ]

\* if (point_cost >= max_cost_ && max_cost_ != 255.0 && invalid_on_collision_)
InCollision(point_cost, cs) ==
    point_cost >= cs.max_cost_ /\ cs.max_cost_ # Unknown /\ cs.invalid_on_collision_

\* if (largest_cost < point_cost && point_cost != 255.0)
NewLargest(largest_cost, point_cost) ==
    IF largest_cost < point_cost /\ point_cost # Unknown
    THEN point_cost ELSE largest_cost

\* CostmapScorer::score up to the for loop, for an edge whose line of cells
\* has the samples `line`; on_map is the outcome of the two worldToMap calls.
ScoreEnter(line, on_map) ==
    /\ scoring.pc = "idle"
    /\ scoring' =
         IF ~costmap_scorer.costmap_
         THEN [ NotScoring EXCEPT !.pc = "done", !.line = line ]
         ELSE IF ~on_map
         THEN [ NotScoring EXCEPT !.pc = "done", !.line = line,
                                  !.valid = ~costmap_scorer.invalid_off_map_ ]
         ELSE [ NotScoring EXCEPT !.pc = "iter", !.line = line, !.iter = 1 ]
    /\ UNCHANGED <<PlannerVars, costmap_scorer>>

\* One pass of the for loop over the line's cells.
ScoreCell ==
    /\ scoring.pc = "iter"
    /\ scoring.iter <= Len(scoring.line)
    /\ LET point_cost == scoring.line[scoring.iter]
       IN  scoring' =
             IF InCollision(point_cost, costmap_scorer)
             THEN [ scoring EXCEPT !.pc = "done", !.valid = FALSE ]
             ELSE [ scoring EXCEPT
                      !.iter = @ + 1,
                      !.idx = @ + 1,
                      !.running_cost = @ + point_cost,
                      !.largest_cost = NewLargest(@, point_cost) ]
    /\ UNCHANGED <<PlannerVars, costmap_scorer>>

\* The end of score: the cost from the largest sample or from the mean.
ScoreReturn ==
    /\ scoring.pc = "iter"
    /\ scoring.iter > Len(scoring.line)
    /\ scoring' =
         [ scoring EXCEPT
             !.pc = "done",
             !.valid = TRUE,
             !.cost =
                IF costmap_scorer.use_max_
                THEN Quotient(costmap_scorer.weight_ * scoring.largest_cost,
                              costmap_scorer.max_cost_)
                ELSE Quotient(costmap_scorer.weight_ * scoring.running_cost,
                              scoring.idx * costmap_scorer.max_cost_) ]
    /\ UNCHANGED <<PlannerVars, costmap_scorer>>

\* ------------------------------------------------------- adjust_edges service

\* A request of the service: closed_edges, opened_edges (edge ids) and
\* adjust_edges (<<edgeid, cost>> pairs).
RequestLen(req) ==
    Len(req.closed_edges) + Len(req.opened_edges) + Len(req.adjust_edges)

\* One element of the request applied as std::map::insert would: a penalty
\* already in the map is kept.
CbApplyInsert(req, p, st) ==
    LET nc == Len(req.closed_edges)
        no == Len(req.opened_edges)
    IN  IF p <= nc
        THEN [ st EXCEPT !.closed = @ \cup { req.closed_edges[p] } ]
        ELSE IF p <= nc + no
        THEN [ st EXCEPT !.closed = @ \ { req.opened_edges[p - nc] } ]
        ELSE LET a == req.adjust_edges[p - nc - no]
             IN  [ st EXCEPT !.penalties =
                      [ id \in DOMAIN @ \cup { a[1] } |->
                          IF id \in DOMAIN @ THEN @[id] ELSE a[2] ] ]

\* One element of the request, the p-th in the order closedEdgesCb walks the
\* three lists, applied to the scorer's state.
CbApply(req, p, st) ==
    LET nc == Len(req.closed_edges)
        no == Len(req.opened_edges)
    IN  IF p <= nc
        THEN [ st EXCEPT !.closed = @ \cup { req.closed_edges[p] } ]
        ELSE IF p <= nc + no
        THEN [ st EXCEPT !.closed = @ \ { req.opened_edges[p - nc] } ]
        ELSE LET a == req.adjust_edges[p - nc - no]
             IN  [ st EXCEPT !.penalties =
                      [ id \in DOMAIN @ \cup { a[1] } |->
                          IF id = a[1] THEN a[2] ELSE @[id] ] ]

RECURSIVE CbApplyUpTo(_, _, _)
CbApplyUpTo(req, p, st) ==
    IF p = 0 THEN st ELSE CbApply(req, p, CbApplyUpTo(req, p - 1, st))

\* AdjustEdgesScorer::closedEdgesCb, the whole callback.
closedEdgesCb(req, st) == CbApplyUpTo(req, RequestLen(req), st)

\* dynamic_penalties_ with no entry.
NoPenalties == [ id \in {} |-> 0 ]

ScorerState == [ closed |-> closed_edges_, penalties |-> dynamic_penalties_ ]

CbIdle ==
    [ active |-> FALSE, req |-> << >>, done |-> 0,
      before |-> [ closed |-> {}, penalties |-> NoPenalties ] ]

\* ------------------------------------------------------------- backtracking

\* The sequence left in the order of the walk, goal first.
ReverseSkipped(s) == s

\* std::reverse
Reverse(s) == [ i \in 1 .. Len(s) |-> s[Len(s) + 1 - i] ]

RECURSIVE BacktrackLoop(_, _, _, _, _)
\* The while loop of findRoute.  parent_edge is a reference to the goal
\* node's search_state.parent_edge, so each step stores the next parent edge
\* there.  A walk longer than the graph has edges has entered a cycle and
\* never ends.
BacktrackLoop(g, ss, goal, edges, fuel) ==
    LET parent_edge == ss[goal].parent_edge
    IN  IF parent_edge = NullEdge
        THEN [ ss |-> ss, edges |-> edges, ends |-> TRUE ]
        ELSE IF fuel = 0
        THEN [ ss |-> ss, edges |-> edges, ends |-> FALSE ]
        ELSE BacktrackLoop(
                 g,
                 [ ss EXCEPT ![goal].parent_edge =
                       ss[g.edges[parent_edge].start].parent_edge ],
                 goal, Append(edges, parent_edge), fuel - 1)

\* ------------------------------------------------------------------ calls

NoResult == [ kind |-> "none", edges |-> << >>, start_node |-> 0, route_cost |-> 0 ]

Thrown(kind) == [ kind |-> kind, edges |-> << >>, start_node |-> 0, route_cost |-> 0 ]

\* The record of a finished call.
Finished(res) ==
    [ start |-> call.start, goal |-> call.goal, blocked_ids |-> call.blocked_ids,
      closed |-> loc.closed0, penalties |-> loc.penalties0,
      kind |-> res.kind, edges |-> res.edges, route_cost |-> res.route_cost,
      iterations |-> loc.iterations, goal_popped |-> loc.goal_popped,
      queue0 |-> loc.queue0 ]

\* What getTraversalCost gives when it has not been called.
NotPriced ==
    [ thrown |-> FALSE, valid |-> FALSE, score |-> 0, priced |-> FALSE,
      scored |-> FALSE ]

\* The locals of findShortestGraphTraversal, with the state of the scorer and
\* of the queue at its entry, the edge getTraversalCost priced last with
\* what it gave, and the nodes whose edges the for loop has gone over.
NoLocals ==
    [ iterations |-> 0, curr_cost |-> 0, node |-> 0, edges |-> << >>,
      edge_num |-> 0, goal_popped |-> FALSE, bad_priced |-> FALSE,
      closed0 |-> {}, penalties0 |-> NoPenalties, queue0 |-> << >>,
      last_edge |-> NullEdge, last_priced |-> NotPriced, expanded |-> << >> ]

\* RoutePlanner::configure without the mapping of 0 to the largest int.
ConfigureLiteral(param) == param

\* RoutePlanner::configure
Configure(param) == IF param = 0 THEN IntMax ELSE param

\* RoutePlanner::findRoute up to the expansion loop: the empty graph throws;
\* otherwise findShortestGraphTraversal resets the search states, stores the
\* goal id and schedules the start node at cost 0.
FindRoute(start, goal, blocked_ids) ==
    /\ pc = "idle"
    /\ Len(history) < MaxCalls
    /\ call' = [ start |-> start, goal |-> goal, blocked_ids |-> blocked_ids ]
    /\ IF graph.nodes = {}
       THEN /\ result' = Thrown("NoValidGraph")
            /\ loc' = NoLocals
            /\ history' = Append(history,
                   [ start |-> start, goal |-> goal, blocked_ids |-> blocked_ids,
                     closed |-> closed_edges_, penalties |-> dynamic_penalties_,
                     kind |-> "NoValidGraph", edges |-> << >>, route_cost |-> 0,
                     iterations |-> 0, goal_popped |-> FALSE,
                     queue0 |-> queue_ ])
            /\ UNCHANGED <<search_state, queue_, goal_id_, pc>>
       ELSE /\ search_state' =
                  [ resetSearchStates(graph) EXCEPT ![start].integrated_cost = 0 ]
            /\ goal_id_' = goal
            /\ loc' = [ NoLocals EXCEPT !.closed0 = closed_edges_,
                                        !.penalties0 = dynamic_penalties_,
                                        !.queue0 = queue_ ]
            /\ queue_' = addNode(queue_, 0, start)
            /\ pc' = "loop"
            /\ UNCHANGED <<result, history>>
    /\ UNCHANGED <<costmap_scorer, scoring, graph, plugins, tie_policy, max_iterations_, closed_edges_,
                   dynamic_penalties_, cb, requests, torn>>

\* while (!queue_.empty() && iterations < max_iterations_)
LoopCondition == queue_ # << >> /\ loc.iterations < max_iterations_

\* One pass of the expansion loop up to the for loop over the edges: count
\* the iteration, pop the cheapest element, drop it if stale, stop at the
\* goal.
LoopIter ==
    /\ pc = "loop"
    /\ LoopCondition
    /\ loc.iterations < MaxIterations
    /\ LET top   == getNextNode(queue_, tie_policy)
           edges == getEdges(graph, top.node)
       IN  /\ queue_' = top.rest
           /\ IF top.cost # search_state[top.node].integrated_cost
              THEN /\ pc' = "loop"
                   /\ loc' = [ loc EXCEPT !.iterations = @ + 1,
                                          !.curr_cost = top.cost,
                                          !.node = top.node ]
              ELSE IF isGoal(top.node, goal_id_)
              THEN /\ pc' = "break"
                   /\ loc' = [ loc EXCEPT !.iterations = @ + 1,
                                          !.curr_cost = top.cost,
                                          !.node = top.node,
                                          !.goal_popped = TRUE ]
              ELSE /\ pc' = IF edges = << >> THEN "loop" ELSE "expand"
                   /\ loc' = [ loc EXCEPT !.iterations = @ + 1,
                                          !.curr_cost = top.cost,
                                          !.node = top.node,
                                          !.edges = edges,
                                          !.edge_num = 1,
                                          !.expanded = Append(@, top.node) ]
    /\ UNCHANGED <<costmap_scorer, scoring, graph, plugins, tie_policy, max_iterations_, closed_edges_,
                   dynamic_penalties_, search_state, goal_id_, call, result,
                   history, cb, requests, torn>>

\* A score is torn when a request is half applied and the score is neither
\* the one the state before the request gives nor the one the state after
\* it gives.
TornScore(edge, got) ==
    /\ cb.active
    /\ ~StaticallyPriced(edge, plugins)
    /\ LET after == closedEdgesCb(cb.req, cb.before)
           b == EdgeScorerScore(plugins, edge, cb.before.closed, cb.before.penalties)
           a == EdgeScorerScore(plugins, edge, after.closed, after.penalties)
       IN  /\ <<got.valid, got.score>> # <<b.valid, b.cost>>
           /\ <<got.valid, got.score>> # <<a.valid, a.cost>>

\* One pass of the for loop: price the edge and, if it is valid and improves
\* the neighbor's integrated cost, update the neighbor and schedule it.
\* NoValidGraph leaves the function at once, past clearQueue.
ExpandEdge ==
    /\ pc = "expand"
    /\ LET e        == loc.edges[loc.edge_num]
           edge     == graph.edges[e]
           neighbor == edge.end
           r        == getTraversalCost(edge, call.blocked_ids, goal_id_, plugins,
                                        closed_edges_, dynamic_penalties_)
           potential_cost == loc.curr_cost + r.score
           last     == loc.edge_num = Len(loc.edges)
           bad      == r.priced /\ StaticallyPriced(edge, plugins) /\ edge.cost <= 0
       IN  /\ torn' = (torn \/ TornScore(edge, r))
           /\ IF r.thrown
              THEN /\ pc' = "idle"
                   /\ result' = Thrown("NoValidGraph")
                   /\ history' = Append(history, Finished(Thrown("NoValidGraph")))
                   /\ loc' = [ loc EXCEPT !.bad_priced = @ \/ bad,
                                          !.last_edge = e, !.last_priced = r ]
                   /\ UNCHANGED <<search_state, queue_>>
              ELSE /\ pc' = IF last THEN "loop" ELSE "expand"
                   /\ loc' = [ loc EXCEPT !.edge_num = @ + 1,
                                          !.bad_priced = @ \/ bad,
                                          !.last_edge = e, !.last_priced = r ]
                   /\ UNCHANGED <<result, history>>
                   /\ IF r.valid /\ potential_cost < search_state[neighbor].integrated_cost
                      THEN /\ search_state' =
                                 [ search_state EXCEPT ![neighbor] =
                                     [ parent_edge |-> e,
                                       integrated_cost |-> potential_cost,
                                       traversal_cost |-> r.score ] ]
                           /\ queue_' = addNode(queue_, potential_cost, neighbor)
                      ELSE UNCHANGED <<search_state, queue_>>
    /\ UNCHANGED <<costmap_scorer, scoring, graph, plugins, tie_policy, max_iterations_, closed_edges_,
                   dynamic_penalties_, goal_id_, call, cb, requests>>

\* The end of findShortestGraphTraversal and the rest of findRoute: clear the
\* queue, throw TimedOut if the iterations reached the bound; otherwise throw
\* NoValidRouteCouldBeFound if the goal has no parent edge, else walk the
\* parent edges back, reverse them and return the route.
Finish ==
    /\ \/ pc = "break"
       \/ pc = "loop" /\ ~LoopCondition
    /\ queue_' = clearQueue
    /\ pc' = "idle"
    /\ LET walk == BacktrackLoop(graph, search_state, call.goal, << >>,
                                 Len(graph.edges) + 1)
           res  ==
               IF loc.iterations >= max_iterations_ THEN Thrown("TimedOut")
               ELSE IF search_state[call.goal].parent_edge = NullEdge
               THEN Thrown("NoRoute")
               ELSE IF ~walk.ends THEN Thrown("Hangs")
               ELSE [ kind |-> "Route", edges |-> Reverse(walk.edges),
                      start_node |-> call.start,
                      route_cost |-> search_state[call.goal].integrated_cost ]
       IN  /\ result' = res
           /\ history' = Append(history, Finished(res))
           /\ search_state' = IF res.kind = "Route" THEN walk.ss ELSE search_state
    /\ UNCHANGED <<costmap_scorer, scoring, graph, plugins, tie_policy, max_iterations_, closed_edges_,
                   dynamic_penalties_, goal_id_, call, loc, cb, requests, torn>>

\* ------------------------------------------------- the service's callback

RECURSIVE SeqsUpTo(_, _)
\* The sequences over S of length at most n.
SeqsUpTo(S, n) ==
    IF n = 0 THEN { << >> }
    ELSE LET shorter == SeqsUpTo(S, n - 1)
         IN  shorter \cup { Append(q, x) : q \in shorter, x \in S }

\* The requests whose lists hold at most n entries each, over the edge ids
\* `ids` and the costs `costs`.
RequestsOver(ids, costs, n) ==
    [ closed_edges : SeqsUpTo(ids, n), opened_edges : SeqsUpTo(ids, n),
      adjust_edges : SeqsUpTo(ids \X costs, n) ]

\* The entry of a served request in the log: the request, the scorer's state
\* when the callback was entered, the response and the number of calls
\* finished so far.
Served(req, before) ==
    [ req |-> req, before |-> before, success |-> TRUE, calls |-> Len(history) ]

ServiceUp == \E i \in 1 .. Len(plugins) : plugins[i] = AdjustEdgesScorer

\* closedEdgesCb run as one step, between two calls of findRoute: the
\* service and the planner share a single-threaded executor.
ClosedEdgesCb(req) ==
    /\ ServiceUp
    /\ pc = "idle"
    /\ ~cb.active
    /\ Len(requests) < MaxRequests
    /\ LET st == closedEdgesCb(req, ScorerState)
       IN  /\ closed_edges_' = st.closed
           /\ dynamic_penalties_' = st.penalties
    /\ requests' = Append(requests, Served(req, ScorerState))
    /\ UNCHANGED <<costmap_scorer, scoring, graph, plugins, tie_policy, max_iterations_, search_state,
                   queue_, goal_id_, pc, call, loc, result, history, cb, torn>>

\* closedEdgesCb on a thread of its own: the callback is entered ...
CbBegin(req) ==
    /\ ServiceUp
    /\ ~cb.active
    /\ Len(requests) < MaxRequests
    /\ IF RequestLen(req) = 0
       THEN /\ requests' = Append(requests, Served(req, ScorerState))
            /\ UNCHANGED cb
       ELSE /\ cb' = [ active |-> TRUE, req |-> req, done |-> 0,
                       before |-> ScorerState ]
            /\ UNCHANGED requests
    /\ UNCHANGED <<costmap_scorer, scoring, graph, plugins, tie_policy, max_iterations_, closed_edges_,
                   dynamic_penalties_, search_state, queue_, goal_id_, pc, call,
                   loc, result, history, torn>>

\* ... and handles the next entry of its lists; nothing keeps a search
\* from pricing an edge between two entries.
CbStep ==
    /\ cb.active
    /\ LET st == CbApply(cb.req, cb.done + 1, ScorerState)
       IN  /\ closed_edges_' = st.closed
           /\ dynamic_penalties_' = st.penalties
    /\ IF cb.done + 1 = RequestLen(cb.req)
       THEN /\ cb' = CbIdle
            /\ requests' = Append(requests, Served(cb.req, cb.before))
       ELSE /\ cb' = [ cb EXCEPT !.done = @ + 1 ]
            /\ UNCHANGED requests
    /\ UNCHANGED <<costmap_scorer, scoring, graph, plugins, tie_policy, max_iterations_, search_state,
                   queue_, goal_id_, pc, call, loc, result, history, torn>>

\* ------------------------------------------------------------ specifications

\* The state after RoutePlanner::configure and the plugins' configure, for a
\* graph of `graphs`, a plugin list of `pluginLists` and a max_iterations
\* parameter of `params`.
InitPlanner(graphs, pluginLists, params, policies) ==
    /\ graph \in graphs
    /\ plugins \in pluginLists
    /\ tie_policy \in policies
    /\ max_iterations_ \in { Configure(p) : p \in params }
    /\ closed_edges_ = {}
    /\ dynamic_penalties_ = NoPenalties
    /\ search_state = resetSearchStates(graph)
    /\ queue_ = << >>
    /\ goal_id_ = 0
    /\ pc = "idle"
    /\ call = [ start |-> 0, goal |-> 0, blocked_ids |-> {} ]
    /\ loc = NoLocals
    /\ result = NoResult
    /\ history = << >>
    /\ cb = CbIdle
    /\ requests = << >>
    /\ torn = FALSE

\* The same with no CostmapScorer at work.
InitOver(graphs, pluginLists, params, policies) ==
    /\ InitPlanner(graphs, pluginLists, params, policies)
    /\ costmap_scorer = CostmapScorerConfigure(TRUE, TRUE, TRUE, MaxCostDefault, 1, FALSE)
    /\ scoring = NotScoring

\* No call has been made and none is in flight.
NoCallYet == pc = "idle" /\ history = << >>

\* The first call of a behaviour, and the same call again.
FirstCall(start, goal, blocked_ids) ==
    NoCallYet /\ FindRoute(start, goal, blocked_ids)

RepeatCall ==
    history # << >> /\ FindRoute(call.start, call.goal, call.blocked_ids)

PositiveCosts == {1, 2, 5}

\* Static pricing: no plugin is loaded, every cost is positive, nothing is
\* blocked and max_iterations is left at 0.
InitStatic ==
    InitOver(GraphsOver(PositiveCosts, {TRUE}), { << >> }, {0}, {"fifo", "lifo"})

NextStatic ==
    \/ NoCallYet /\ \E start, goal \in Nodes : FirstCall(start, goal, {})
    \/ LoopIter
    \/ ExpandEdge
    \/ Finish

SpecStatic == InitStatic /\ [][NextStatic]_vars

\* ------------------------------------------------------- reference values

Min(S) == CHOOSE x \in S : \A y \in S : x <= y

RECURSIVE CostsAfter(_, _, _, _)
\* The cheapest cost from `start` to every node over paths of at most n
\* edges, where w maps each edge that may be used to its price; Infinity
\* where there is no such path.
CostsAfter(g, start, w, n) ==
    IF n = 0 THEN [ v \in g.nodes |-> IF v = start THEN 0 ELSE Infinity ]
    ELSE LET d == CostsAfter(g, start, w, n - 1)
         IN  [ v \in g.nodes |->
                 Min({ d[v] } \cup
                     { d[g.edges[e].start] + w[e] :
                         e \in { x \in EdgePtrs(g) :
                                   /\ x \in DOMAIN w
                                   /\ g.edges[x].end = v
                                   /\ d[g.edges[x].start] < Infinity } }) ]

\* The cost of the cheapest path from start to goal, over all paths.
MinPathCost(g, start, goal, w) == CostsAfter(g, start, w, Cardinality(g.nodes))[goal]

StaticCosts(g) == [ e \in EdgePtrs(g) |-> g.edges[e].cost ]

Calls == DOMAIN history

\* -------------------------------------------------------------------- C1

\* C1: with positive static costs, no plugins, no blocked ids and no iteration
\* bound, a call with start # goal whose goal some directed path reaches
\* returns a route, and the route's cost is the least sum of edge costs over
\* all directed paths from start to goal.
C1_RouteCostIsMinimum ==
    \A i \in Calls :
        LET h == history[i]
            least == MinPathCost(graph, h.start, h.goal, StaticCosts(graph))
        IN  ( /\ plugins = << >>
              /\ max_iterations_ = IntMax
              /\ h.blocked_ids = {}
              /\ \A e \in EdgePtrs(graph) : graph.edges[e].cost > 0
              /\ h.start # h.goal
              /\ least < Infinity )
            => h.kind = "Route" /\ h.route_cost = least

\* The scenario of the specification: 1-2-3-4 at cost 1 each and a direct
\* edge 1-4 of cost 5; the call returned the three-edge route of cost 3.
C1_Witness ==
    /\ history # << >>
    /\ \E e \in EdgePtrs(graph) :
          /\ graph.edges[e].start = 1 /\ graph.edges[e].end = 4
          /\ graph.edges[e].cost = 5
    /\ history[1].start = 1 /\ history[1].goal = 4
    /\ history[1].kind = "Route"
    /\ Len(history[1].edges) = 3
    /\ history[1].route_cost = 3

\* --------------------------------------------------------------- C2, C3

Ids == Nodes \cup EdgeIds

\* The blocked-id lists of at most MaxBlocked ids (their order plays no part
\* in getTraversalCost).
RECURSIVE SetsUpTo(_, _)
SetsUpTo(S, n) ==
    IF n = 0 THEN { {} }
    ELSE LET smaller == SetsUpTo(S, n - 1)
         IN  smaller \cup { b \cup {x} : b \in smaller, x \in S }

BlockedLists == SetsUpTo(Ids, MaxBlocked)

UnitCosts == {1}

\* Static pricing with blocked ids: as InitStatic, over unit costs.
InitVeto ==
    InitOver(GraphsOver(UnitCosts, {TRUE}), { << >> }, {0}, {"fifo", "lifo"})

NextVeto ==
    \/ NoCallYet /\ \E start, goal \in Nodes, b \in BlockedLists :
                      FirstCall(start, goal, b)
    \/ LoopIter
    \/ ExpandEdge
    \/ Finish

SpecVeto == InitVeto /\ [][NextVeto]_vars

\* C2: a returned route holds no edge whose id or whose end node's id is in
\* the blocked-id list, except edges that end at the goal.
C2_NoBlockedEdgeInRoute ==
    \A i \in Calls :
        LET h == history[i]
        IN  h.kind = "Route" =>
              \A k \in 1 .. Len(h.edges) :
                  LET edge == graph.edges[h.edges[k]]
                  IN  (edge.edgeid \in h.blocked_ids \/ edge.end \in h.blocked_ids)
                        => edge.end = h.goal

\* A route was returned under a blocked-id list that kept the search off the
\* cheapest path.
C2_Witness ==
    \E i \in Calls :
        LET h == history[i]
        IN  /\ h.kind = "Route"
            /\ h.blocked_ids # {}
            /\ h.route_cost > MinPathCost(graph, h.start, h.goal, StaticCosts(graph))

\* The nodes some path from `start` reaches whose edges all have an id and an
\* end node outside the blocked ids, among the edges of `usable`.
ReachedUnblocked(g, start, blocked_ids, usable) ==
    LET w == [ e \in { x \in usable :
                         /\ g.edges[x].edgeid \notin blocked_ids
                         /\ g.edges[x].end \notin blocked_ids } |-> 1 ]
        d == CostsAfter(g, start, w, Cardinality(g.nodes))
    IN  { v \in g.nodes : d[v] < Infinity }

\* Some path leads from start to goal on which no id is blocked but, at
\* most, the id of the last edge and the id of the goal.
BlockedOnlyAtGoal(g, start, goal, blocked_ids, usable) ==
    \E e \in usable :
        /\ g.edges[e].end = goal
        /\ g.edges[e].start \in ReachedUnblocked(g, start, blocked_ids, usable)

\* C3: the veto is ignored for an edge that ends at the goal: when some path
\* from start to goal (start # goal) has no blocked id on it but the id of its
\* last edge or of the goal, the call does not fail with NoRouteFound, and
\* with valid static costs and no iteration bound it returns a route.
C3_GoalVetoIgnored ==
    \A i \in Calls :
        LET h == history[i]
        IN  ( /\ plugins = << >>
              /\ h.start # h.goal
              /\ BlockedOnlyAtGoal(graph, h.start, h.goal, h.blocked_ids,
                                   EdgePtrs(graph)) )
            => /\ h.kind # "NoRoute"
               /\ ( /\ max_iterations_ = IntMax
                    /\ \A e \in EdgePtrs(graph) : graph.edges[e].cost > 0 )
                  => h.kind = "Route"

\* A route was returned whose last edge and whose goal are both blocked.
C3_Witness ==
    \E i \in Calls :
        LET h == history[i]
        IN  /\ h.kind = "Route"
            /\ h.goal \in h.blocked_ids
            /\ graph.edges[h.edges[Len(h.edges)]].edgeid \in h.blocked_ids
            /\ Len(h.edges) > 1

\* --------------------------------------------------------------- C4, C9

SmallCosts == {0, 1}

IterParams == 0 .. MaxIterParam

\* Static pricing under an iteration bound, the call repeated: the graphs
\* may hold edges of static cost zero, which getTraversalCost refuses.
InitBounded ==
    InitOver(GraphsOver(SmallCosts, {TRUE}), { << >> }, IterParams,
             {"fifo", "lifo"})

NextBounded ==
    \/ NoCallYet /\ \E start, goal \in Nodes : FirstCall(start, goal, {})
    \/ RepeatCall
    \/ LoopIter
    \/ ExpandEdge
    \/ Finish

SpecBounded == InitBounded /\ [][NextBounded]_vars

\* C4: a search that pops the goal within the iteration bound, the last
\* permitted iteration included, does not raise TimedOut.
C4_NoTimeoutOnceGoalPopped ==
    \A i \in Calls :
        LET h == history[i]
        IN  (h.goal_popped /\ h.start # h.goal) => h.kind # "TimedOut"

\* C9: two calls with the same start, goal and blocked ids, on the same
\* graph and under the same scorer state, end the same way and, when they
\* return routes, return the same route cost.
C9_RepeatedCallsAgree ==
    \A i, j \in Calls :
        LET a == history[i]
            b == history[j]
        IN  ( /\ a.start = b.start /\ a.goal = b.goal
              /\ a.blocked_ids = b.blocked_ids
              /\ a.closed = b.closed /\ a.penalties = b.penalties )
            => a.kind = b.kind /\ a.route_cost = b.route_cost

\* ------------------------------------------------------------------- C5

SignedCosts == {-1, 0, 1}

\* Static pricing over graphs whose static costs may be zero or negative.
InitCosts ==
    InitOver(GraphsOver(SignedCosts, {TRUE}), { << >> }, {0}, {"fifo"})

NextCosts ==
    \/ NoCallYet /\ \E start, goal \in Nodes : FirstCall(start, goal, {})
    \/ LoopIter
    \/ ExpandEdge
    \/ Finish

SpecCosts == InitCosts /\ [][NextCosts]_vars

\* C5: once the search has priced a statically priced edge whose static cost
\* is zero or negative, the call has failed with NoValidGraph: the search
\* does not go on with the edge.
C5_NonPositiveCostRefused ==
    loc.bad_priced => pc = "idle" /\ result.kind = "NoValidGraph"

\* The model's cap on the iterations cuts no run short.
CapNotReached == ~(pc = "loop" /\ LoopCondition /\ loc.iterations >= MaxIterations)

\* -------------------------------------------------------------------- C6

\* The edges the service's requests name: 3-4, 1-4 and 1-3, two ways from
\* node 1 to node 4.
ServiceSlots == {3, 4, 5}

ServiceIds == { NumNodes + k : k \in ServiceSlots }

ServiceNodes == {1, 3, 4}

\* The requests of one entry, which closes or reopens an edge.
ClosureRequests ==
    { r \in RequestsOver(ServiceIds, {}, MaxRequestLen) : RequestLen(r) = 1 }

\* The AdjustEdgesScorer loaded as the only plugin, over graphs whose edges
\* are overridable (priced by the scorer) or not (priced by their static
\* cost), with no iteration bound.
InitClosure ==
    InitOver(GraphsOn(ServiceSlots, UnitCosts, {TRUE, FALSE}),
             { <<AdjustEdgesScorer>> }, {0}, {"fifo"})

NextClosure ==
    \/ NoCallYet /\ \E start, goal \in ServiceNodes : FirstCall(start, goal, {})
    \/ RepeatCall
    \/ LoopIter
    \/ ExpandEdge
    \/ Finish
    \/ pc = "idle" /\ \E req \in ClosureRequests : ClosedEdgesCb(req)

SpecClosure == InitClosure /\ [][NextClosure]_vars

\* The edges of a returned route, as edge ids.
RouteIds(h) == { graph.edges[h.edges[k]].edgeid : k \in 1 .. Len(h.edges) }

\* Two calls with the same arguments under the same closures and penalties.
SameQuery(h1, h2) ==
    /\ h1.start = h2.start /\ h1.goal = h2.goal
    /\ h1.blocked_ids = h2.blocked_ids
    /\ h1.closed = h2.closed /\ h1.penalties = h2.penalties

Closes(n, id) == \E p \in DOMAIN requests[n].req.closed_edges :
                     requests[n].req.closed_edges[p] = id

Reopens(n, id) == \E p \in DOMAIN requests[n].req.opened_edges :
                      requests[n].req.opened_edges[p] = id

CloseRequests == { r \in ClosureRequests : r.opened_edges = << >> }

\* At most one blocked id, of an edge or a node the service's graphs use.
ServiceBlockedLists == SetsUpTo(ServiceIds \cup ServiceNodes, 1)

\* The closure scorer over graphs that may hold a non-overridable edge of
\* static cost zero, with and without an iteration bound.
InitNoRoute ==
    InitOver(GraphsOn(ServiceSlots, SmallCosts, {TRUE, FALSE}),
             { <<AdjustEdgesScorer>> }, {0, MaxIterParam}, {"fifo"})

NextNoRoute ==
    \/ NoCallYet /\ \E start, goal \in ServiceNodes, b \in ServiceBlockedLists :
                      FirstCall(start, goal, b)
    \/ LoopIter
    \/ ExpandEdge
    \/ Finish
    \/ NoCallYet /\ \E req \in CloseRequests : ClosedEdgesCb(req)

SpecNoRoute == InitNoRoute /\ [][NextNoRoute]_vars

\* Some directed path of edges of `usable` leads from start to goal.
Reaches(g, start, goal, usable) ==
    CostsAfter(g, start, [ e \in usable |-> 1 ], Cardinality(g.nodes))[goal]
        < Infinity

\* The edges of the graph the blocked-id list of call h leaves in use: those
\* that end at the goal, and those whose id and end node are not blocked.
Unblocked(h) ==
    { e \in EdgePtrs(graph) :
        \/ graph.edges[e].end = h.goal
        \/ /\ graph.edges[e].edgeid \notin h.blocked_ids
           /\ graph.edges[e].end \notin h.blocked_ids }

\* The edges that were not closed when call h began.
NotClosed(h) ==
    { e \in EdgePtrs(graph) : graph.edges[e].edgeid \notin h.closed }

\* The edges whose closure the search sees: the overridable ones, when a
\* plugin is loaded.
Closable == { e \in EdgePtrs(graph) :
                graph.edges[e].overridable /\ plugins # << >> }

\* The loop of call h ended with iterations left.
BoundNotExhausted(h) == h.iterations < max_iterations_

\* C8 as stated: when no path from start to goal is left by the blocked ids
\* and the closures and the iteration bound is not exhausted, the call fails
\* with NoRouteFound.
C8_NoPathNoRoute ==
    \A i \in Calls :
        LET h == history[i]
        IN  ( /\ ~Reaches(graph, h.start, h.goal, Unblocked(h) \cap NotClosed(h))
              /\ BoundNotExhausted(h) )
            => h.kind = "NoRoute"

\* C8 (amended): a closure removes an edge only if the edge is overridable
\* and a scorer is loaded.  When no path from start to goal is left by the
\* blocked ids and those closures and the iteration bound is not exhausted,
\* the call never returns a route: it fails with NoRouteFound, or with
\* InvalidGraph if the graph holds a non-overridable edge of static cost zero.
C8_NoUsablePathNoRoute ==
    \A i \in Calls :
        LET h == history[i]
            usable == Unblocked(h) \cap
                      (NotClosed(h) \cup (EdgePtrs(graph) \ Closable))
            zero == \E e \in EdgePtrs(graph) \ Closable : graph.edges[e].cost = 0
        IN  ( /\ ~Reaches(graph, h.start, h.goal, usable)
              /\ BoundNotExhausted(h) )
            => \/ h.kind = "NoRoute"
               \/ h.kind = "NoValidGraph" /\ zero

\* A call failed with NoRouteFound because the only paths to its goal run
\* over a closed overridable edge or a blocked one.
C8_Witness ==
    \E i \in Calls :
        LET h == history[i]
        IN  /\ h.kind = "NoRoute"
            /\ BoundNotExhausted(h)
            /\ h.closed # {}
            /\ Reaches(graph, h.start, h.goal, Unblocked(h))
            /\ ~Reaches(graph, h.start, h.goal,
                        Unblocked(h) \cap (NotClosed(h) \cup (EdgePtrs(graph) \ Closable)))

\* ------------------------------------------------------------------- C10

Penalties == {-1, 2}

\* The requests of one entry, which sets a dynamic penalty.
PenaltyRequests ==
    { r \in RequestsOver(ServiceIds, Penalties, MaxRequestLen) :
        /\ RequestLen(r) = 1
        /\ r.closed_edges = << >> /\ r.opened_edges = << >> }

NextPenalty ==
    \/ NoCallYet /\ \E start, goal \in ServiceNodes : FirstCall(start, goal, {})
    \/ RepeatCall
    \/ LoopIter
    \/ ExpandEdge
    \/ Finish
    \/ pc = "idle" /\ \E req \in PenaltyRequests : ClosedEdgesCb(req)

\* As InitClosure; the requests set penalties.
SpecPenalty == InitClosure /\ [][NextPenalty]_vars

\* What each edge in use costs the search of call h: the static cost of a
\* non-overridable edge, the dynamic penalty of an overridable one, or the
\* default if it has none.
Prices(h) ==
    [ e \in Unblocked(h) \cap (NotClosed(h) \cup (EdgePtrs(graph) \ Closable)) |->
        IF e \notin Closable THEN graph.edges[e].cost
        ELSE IF graph.edges[e].edgeid \in DOMAIN h.penalties
        THEN h.penalties[graph.edges[e].edgeid]
        ELSE DefaultCost ]

\* Call h2 differs from call h1 only in that edge e, which had no dynamic
\* penalty, has one above the default.
PenaltyRaised(h1, h2, e) ==
    LET id == graph.edges[e].edgeid
    IN  /\ h1.start = h2.start /\ h1.goal = h2.goal
        /\ h1.blocked_ids = h2.blocked_ids
        /\ h1.closed = h2.closed
        /\ id \notin DOMAIN h1.penalties
        /\ DOMAIN h2.penalties = DOMAIN h1.penalties \cup {id}
        /\ \A x \in DOMAIN h1.penalties : h2.penalties[x] = h1.penalties[x]
        /\ h2.penalties[id] > DefaultCost

\* Every cheapest path of call h runs over edge e.
OnEveryCheapestPath(h, e) ==
    LET w == Prices(h)
        without == [ x \in DOMAIN w \ {e} |-> w[x] ]
    IN  /\ e \in DOMAIN w
        /\ MinPathCost(graph, h.start, h.goal, w) < Infinity
        /\ MinPathCost(graph, h.start, h.goal, without)
             > MinPathCost(graph, h.start, h.goal, w)

RacePenalties == {2}

\* The requests that name one edge in up to MaxRequestLen entries of each of
\* their lists.
RaceRequests ==
    UNION { RequestsOver({id}, RacePenalties, MaxRequestLen) : id \in ServiceIds }

\* The closure scorer over graphs of overridable edges; the service's
\* callback runs on a thread of its own while findRoute runs.
InitRace ==
    InitOver(GraphsOn(ServiceSlots, UnitCosts, {TRUE}),
             { <<AdjustEdgesScorer>> }, {0}, {"fifo"})

NextRace ==
    \/ NoCallYet /\ \E start, goal \in ServiceNodes : FirstCall(start, goal, {})
    \/ LoopIter
    \/ ExpandEdge
    \/ Finish
    \/ \E req \in RaceRequests : CbBegin(req)
    \/ CbStep

SpecRace == InitRace /\ [][NextRace]_vars

\* C7: no score of an edge made while a request is being applied returns a
\* result that differs both from the one the state before the request gives
\* and from the one the state after it gives.
C7_ScoreSeesWholeRequests == ~torn

\* ------------------------------------------------------------------- C11

\* The edges 1-2, 2-3, 3-4 of the template: a linear chain.
ChainSlots == {1, 2, 3}

\* The graph is a linear chain 1-2-...-n over its first n nodes.
IsChain(g, n) ==
    /\ Len(g.edges) = n - 1
    /\ \A k \in 1 .. n - 1 : g.edges[k].start = k /\ g.edges[k].end = k + 1

\* The chains of two nodes and more that start at node 1.
Chains ==
    { g \in GraphsOn(ChainSlots, PositiveCosts, {TRUE}) :
        \E n \in 2 .. Cardinality(ChainSlots) + 1 : IsChain(g, n) }

\* A chain, statically priced, under every max_iterations from 0 (unbounded)
\* to MaxIterParam.
InitChain == InitOver(Chains, { << >> }, IterParams, {"fifo", "lifo"})

NextChain ==
    \/ NoCallYet /\ FirstCall(1, Len(graph.edges) + 1, {})
    \/ RepeatCall
    \/ LoopIter
    \/ ExpandEdge
    \/ Finish

SpecChain == InitChain /\ [][NextChain]_vars

\* C11: on a chain of n nodes searched from its first node to its last, which
\* takes n iterations of the expansion loop, the call fails with TimedOut
\* under every max_iterations from 1 to n - 1 and returns the route of n - 1
\* edges when max_iterations is 0 (stored as the largest int).
C11_ChainTimesOutBelowItsLength ==
    \A i \in Calls :
        LET h == history[i]
            n == Len(graph.edges) + 1
        IN  ( /\ IsChain(graph, n)
              /\ h.start = 1 /\ h.goal = n /\ h.blocked_ids = {}
              /\ h.queue0 = << >> )
            => /\ max_iterations_ < n => h.kind = "TimedOut"
               /\ max_iterations_ = Configure(0) =>
                     /\ h.kind = "Route"
                     /\ Len(h.edges) = n - 1

\* The chain of all the template's chain edges was searched with a bound one
\* below the iterations it takes, and the search timed out at that bound.
C11_Witness ==
    /\ history # << >>
    /\ IsChain(graph, Cardinality(ChainSlots) + 1)
    /\ max_iterations_ = Cardinality(ChainSlots)
    /\ history[1].kind = "TimedOut"
    /\ history[1].iterations = max_iterations_

\* ------------------------------------------------------------------- C12

\* Cells along one edge.
MaxLine == 3

\* Samples of a cell: free, inflated, lethal and unknown.
CellCosts == {0, 100, 254, Unknown}

\* Values of the max_cost parameter: the default, a lower one, and the
\* value that switches the collision test off.
MaxCosts == {100, MaxCostDefault, Unknown}

\* The lines of one to MaxLine cells.
Lines == SeqsUpTo(CellCosts, MaxLine) \ { << >> }

\* The planner idle on an empty graph; the CostmapScorer configured with any
\* of its parameters, with or without a costmap.
InitCostmap ==
    /\ InitPlanner({ EmptyGraph }, { << >> }, {0}, {"fifo"})
    /\ costmap_scorer \in
         { CostmapScorerConfigure(m, c, o, x, 1, TRUE) :
             m \in BOOLEAN, c \in BOOLEAN, o \in BOOLEAN, x \in MaxCosts }
         \cup { CostmapScorerConfigure(TRUE, TRUE, TRUE, MaxCostDefault, 1, FALSE) }
    /\ scoring = NotScoring

NextCostmap ==
    \/ \E line \in Lines, on_map \in BOOLEAN : ScoreEnter(line, on_map)
    \/ ScoreCell
    \/ ScoreReturn

SpecCostmap == InitCostmap /\ [][NextCostmap]_vars

RECURSIVE SumOf(_, _)
SumOf(line, keep) ==
    IF line = << >> THEN 0
    ELSE (IF Head(line) \in keep THEN Head(line) ELSE 0) + SumOf(Tail(line), keep)

\* The known samples of a line, and what the claim computes from them.
KnownAt(line) == { k \in DOMAIN line : line[k] # Unknown }

KnownMax(line) ==
    IF KnownAt(line) = {} THEN 0
    ELSE CHOOSE v \in { line[k] : k \in KnownAt(line) } :
             \A k \in KnownAt(line) : line[k] <= v

KnownSum(line) == SumOf(line, CellCosts \ { Unknown })

\* Two quotients of the same value.
SameQuotient(a, b) == a.num * b.den = b.num * a.den

\* C12: a score that walked the line rejects the edge only for a known cell
\* at or above max_cost with invalid_on_collision set, never for an unknown
\* cell; and the cost it returns comes from the largest known sample, or from
\* the sum and the count of the known samples.
C12_UnknownCellsExcluded ==
    ( scoring.pc = "done" /\ scoring.iter > 0 ) =>
        /\ ~scoring.valid =>
              \E k \in KnownAt(scoring.line) :
                  /\ scoring.line[k] >= costmap_scorer.max_cost_
                  /\ costmap_scorer.invalid_on_collision_
        /\ ( scoring.valid /\ costmap_scorer.use_max_ ) =>
              SameQuotient(scoring.cost,
                           Quotient(costmap_scorer.weight_ * KnownMax(scoring.line),
                                    costmap_scorer.max_cost_))
        /\ ( scoring.valid /\ ~costmap_scorer.use_max_
                           /\ KnownAt(scoring.line) # {} ) =>
              SameQuotient(scoring.cost,
                           Quotient(costmap_scorer.weight_ * KnownSum(scoring.line),
                                    Cardinality(KnownAt(scoring.line))
                                        * costmap_scorer.max_cost_))

\* ------------------------------------------------------------------- C13

\* The ways a call ends that the claim names: a route, a timeout, no route.
ClearedEndings == {"Route", "TimedOut", "NoRoute"}

\* C13: once a call has returned a route or failed with TimedOut or NoRoute
\* the queue is empty, and the next search, before its first iteration,
\* holds only its own start node at cost 0.
C13_QueueEmptyAfterSearch ==
    result.kind \in ClearedEndings =>
        /\ pc = "idle" => queue_ = << >>
        /\ ( pc = "loop" /\ loc.iterations = 0 ) =>
              queue_ = << <<0, call.start>> >>

\* A search that timed out with elements left to pop was followed by a
\* search that starts on its own start node alone.
C13_Witness ==
    /\ Len(history) = 1
    /\ history[1].kind = "TimedOut"
    /\ history[1].start # history[1].goal
    /\ ~history[1].goal_popped
    /\ pc = "loop" /\ loc.iterations = 0
    /\ queue_ = << <<0, call.start>> >>

\* ------------------------------------------------------------------- C14

\* C14: backtracking leaves the search states as the expansion loop left
\* them: after a call has returned a route, the goal node's parent_edge is
\* the last edge of the route and every edge of the route is the parent_edge
\* of the node it ends at.
C14_BacktrackingOnlyReads ==
    ( pc = "idle" /\ result.kind = "Route" ) =>
        \A k \in 1 .. Len(result.edges) :
            search_state[graph.edges[result.edges[k]].end].parent_edge
                = result.edges[k]

\* ------------------------------------------------------------------- C15

RECURSIVE SumPrices(_, _)
\* The sum of the prices w of the edges of a route.
SumPrices(edges, w) ==
    IF edges = << >> THEN 0
    ELSE w[Head(edges)] + SumPrices(Tail(edges), w)

\* The edges run from `start` to `goal`, each beginning where the one before
\* it ends.
IsChainOfEdges(edges, start, goal) ==
    /\ edges # << >>
    /\ graph.edges[edges[1]].start = start
    /\ graph.edges[edges[Len(edges)]].end = goal
    /\ \A k \in 1 .. Len(edges) - 1 :
          graph.edges[edges[k]].end = graph.edges[edges[k + 1]].start

\* C15: every returned route is a chain of edges from the start node to the
\* goal, its start_node is the start node, and its route_cost is the goal's
\* integrated cost and the sum of the prices of its edges.
C15_RouteIsCostedChain ==
    /\ \A i \in Calls :
          LET h == history[i]
          IN  h.kind = "Route" =>
                /\ IsChainOfEdges(h.edges, h.start, h.goal)
                /\ \A k \in 1 .. Len(h.edges) : h.edges[k] \in DOMAIN Prices(h)
                /\ h.route_cost = SumPrices(h.edges, Prices(h))
    /\ ( pc = "idle" /\ result.kind = "Route" ) =>
          /\ result.start_node = call.start
          /\ result.route_cost = search_state[call.goal].integrated_cost

\* A route of three edges was returned, at the sum of their prices.
C15_Witness ==
    \E i \in Calls :
        /\ history[i].kind = "Route"
        /\ Len(history[i].edges) = 3
        /\ IsChainOfEdges(history[i].edges, history[i].start, history[i].goal)
        /\ history[i].route_cost = SumPrices(history[i].edges, Prices(history[i]))

\* ------------------------------------------------------------------- C16

\* The edge getTraversalCost priced last is priced by its static cost: it is
\* not overridable or no plugin is loaded, and the blocked ids of the call do
\* not veto it.
LastPricedStatically ==
    /\ loc.last_edge # NullEdge
    /\ ~graph.edges[loc.last_edge].overridable \/ plugins = << >>
    /\ \/ graph.edges[loc.last_edge].end = call.goal
       \/ /\ graph.edges[loc.last_edge].edgeid \notin call.blocked_ids
          /\ graph.edges[loc.last_edge].end \notin call.blocked_ids

\* getTraversalCost accepted the edge at its static cost without a call of
\* the edge scorer, and gives the same for every closed set and penalty map.
AcceptedAtStaticCost ==
    LET edge == graph.edges[loc.last_edge]
        r == loc.last_priced
    IN  /\ ~r.thrown /\ r.valid /\ r.score = edge.cost /\ ~r.scored
        /\ \A closed \in SUBSET ServiceIds :
           \A penalties \in { NoPenalties } \cup
                            { [ id \in { edge.edgeid } |-> p ] : p \in Penalties } :
              getTraversalCost(edge, call.blocked_ids, call.goal, plugins,
                               closed, penalties) = r

\* C16 as stated: an edge that is not overridable, or any edge when no plugin
\* is loaded, that the blocked ids do not veto is accepted at its static cost,
\* whatever the closures and the penalties, without a call of the edge scorer.
C16_StaticCostUsed == LastPricedStatically => AcceptedAtStaticCost

\* C16 (amended): the same for a positive static cost; a static cost of zero
\* is refused with NoValidGraph.
C16_PositiveStaticCostUsed ==
    LastPricedStatically =>
        /\ graph.edges[loc.last_edge].cost > 0 => AcceptedAtStaticCost
        /\ graph.edges[loc.last_edge].cost = 0 =>
              /\ loc.last_priced.thrown
              /\ result.kind = "NoValidGraph"

\* A closed edge that is not overridable was accepted at its static cost
\* while the closure scorer was loaded.
C16_Witness ==
    /\ LastPricedStatically
    /\ ServiceUp
    /\ graph.edges[loc.last_edge].cost > 0
    /\ graph.edges[loc.last_edge].edgeid \in closed_edges_
    /\ loc.last_priced.valid
    /\ loc.last_priced.score = graph.edges[loc.last_edge].cost

\* ------------------------------------------------------------------- C17

\* Adjustments in a request sent to the channel on its own.
MaxListLen == 2

\* An edge id of the graph and an id no edge of any graph has.
ChannelIds == { NumNodes + 4, NumNodes + Len(TemplateEdges) + 1 }

\* Requests with up to MaxRequestLen closed ids, as many opened ids and up to
\* MaxListLen adjustments.
ChannelRequests ==
    [ closed_edges : SeqsUpTo(ChannelIds, MaxRequestLen),
      opened_edges : SeqsUpTo(ChannelIds, MaxRequestLen),
      adjust_edges : SeqsUpTo(ChannelIds \X Penalties, MaxListLen) ]

\* The closure scorer loaded; the service's callback runs to its end, one
\* request after the other.
InitChannel ==
    InitOver(GraphsOn({4}, UnitCosts, {TRUE}), { <<AdjustEdgesScorer>> }, {0},
             {"fifo"})

NextChannel == \E req \in ChannelRequests : ClosedEdgesCb(req)

SpecChannel == InitChannel /\ [][NextChannel]_vars

\* The elements of a sequence.
Range(q) == { q[k] : k \in DOMAIN q }

\* The scorer's state when the callback of request n returned.
StateAfter(n) ==
    IF n = Len(requests) THEN ScorerState ELSE requests[n + 1].before

\* The cost of the last pair of the list that names the id.
LastWrite(adjust_edges, id) ==
    LET at == { k \in DOMAIN adjust_edges : adjust_edges[k][1] = id }
        k  == CHOOSE x \in at : \A y \in at : y <= x
    IN  adjust_edges[k][2]

\* C17: a request leaves the closed set equal to the old set with the closed
\* ids added and then the opened ids removed; leaves each id named in the
\* adjustments at the cost of the last pair that names it and every other
\* penalty as it was, none removed; and is answered with success.
C17_RequestApplied ==
    \A n \in DOMAIN requests :
        LET r      == requests[n].req
            before == requests[n].before
            after  == StateAfter(n)
            named  == { a[1] : a \in Range(r.adjust_edges) }
        IN  /\ after.closed =
                 (before.closed \cup Range(r.closed_edges)) \ Range(r.opened_edges)
            /\ DOMAIN after.penalties = DOMAIN before.penalties \cup named
            /\ \A id \in DOMAIN after.penalties :
                  after.penalties[id] =
                     IF id \in named THEN LastWrite(r.adjust_edges, id)
                     ELSE before.penalties[id]
            /\ requests[n].success

\* A request closed and reopened the same id, which ended up open, and named
\* an id of no edge twice in its adjustments, overriding an older penalty
\* with the cost of the second pair.
C17_Witness ==
    \E n \in DOMAIN requests :
        LET r     == requests[n].req
            after == StateAfter(n)
        IN  /\ \E id \in Range(r.closed_edges) \cap Range(r.opened_edges) :
                  id \notin after.closed
            /\ Len(r.adjust_edges) = 2
            /\ r.adjust_edges[1][1] = r.adjust_edges[2][1]
            /\ r.adjust_edges[1][2] # r.adjust_edges[2][2]
            /\ r.adjust_edges[1][1] \notin EdgeIds
            /\ r.adjust_edges[1][1] \in DOMAIN requests[n].before.penalties
            /\ after.penalties[r.adjust_edges[2][1]] = r.adjust_edges[2][2]

\* ------------------------------------------------------------------- C18

\* C18: no call depends on the calls before it: every call finds the queue
\* empty when it begins, and ends as the first call of the planner, made on
\* the planner as constructed, ended for the same start, goal, blocked ids
\* and scorer state, with the same route cost.
C18_NoCarryOver ==
    \A i \in Calls :
        /\ history[i].queue0 = << >>
        /\ SameQuery(history[1], history[i]) =>
              /\ history[i].kind = history[1].kind
              /\ history[i].route_cost = history[1].route_cost

\* ------------------------------------------------------------------- C19

\* The edges 1-2, 2-3, 3-4 and 3-2: a chain with a cycle between 2 and 3.
CycleSlots == {1, 2, 3, 6}

\* The edges of the cycle and the edge that leaves it.
CycleIds == { NumNodes + k : k \in {2, 3, 6} }

\* A dynamic penalty below zero.  (A penalty of zero is what an overridable
\* edge costs with no penalty at all.)
NegativePenalties == {-1}

\* The requests that adjust up to MaxListLen edges.
AdjustRequests ==
    { r \in RequestsOver(CycleIds, NegativePenalties, MaxListLen) :
        r.closed_edges = << >> /\ r.opened_edges = << >> /\ r.adjust_edges # << >> }

\* The closure scorer loaded over overridable edges, with no iteration bound.
InitCycle ==
    InitOver(GraphsOn(CycleSlots, UnitCosts, {TRUE}), { <<AdjustEdgesScorer>> },
             {0}, {"fifo"})

NextCycle ==
    \/ NoCallYet /\ \E start, goal \in Nodes : FirstCall(start, goal, {})
    \/ LoopIter
    \/ ExpandEdge
    \/ Finish
    \/ NoCallYet /\ \E req \in AdjustRequests : ClosedEdgesCb(req)

SpecCycle == InitCycle /\ [][NextCycle]_vars

\* The expansion loop has ended.
LoopEnded == pc = "break" \/ (pc = "loop" /\ ~LoopCondition)

\* C19: when the expansion loop ends with a parent edge at the goal, the
\* start node has none and the parent edges lead from the goal back to the
\* start node in at most N - 1 steps, whatever penalties the service has set.
C19_ParentLinksReachStart ==
    ( LoopEnded /\ search_state[call.goal].parent_edge # NullEdge ) =>
        LET walk == BacktrackLoop(graph, search_state, call.goal, << >>,
                                  Cardinality(graph.nodes) - 1)
        IN  /\ search_state[call.start].parent_edge = NullEdge
            /\ walk.ends
            /\ graph.edges[walk.edges[Len(walk.edges)]].start = call.start

\* ------------------------------------------------------------------- C20

\* C20: a call whose start and goal are the same node, under an iteration
\* bound above 1 or none, raises NoRoute: the goal is popped in the first
\* iteration and holds no parent edge.
C20_StartIsGoalNoRoute ==
    \A i \in Calls :
        ( history[i].start = history[i].goal /\ max_iterations_ > 1 ) =>
            /\ history[i].kind = "NoRoute"
            /\ history[i].goal_popped
            /\ history[i].iterations = 1

\* A call from a node that has edges to itself, under a finite bound and
\* under none, has raised NoRoute.
C20_Witness ==
    \E i \in Calls :
        /\ history[i].start = history[i].goal
        /\ getEdges(graph, history[i].start) # << >>
        /\ max_iterations_ \in {2, IntMax}
        /\ history[i].kind = "NoRoute"

\* ------------------------------------------------------------------- C21

\* Static costs that let a later path improve on an earlier one, and zero.
StepCosts == {0, 1, 3}

\* The edges 1-2, 2-3, 3-4, 1-3 and 3-2: two paths to 3 and a cycle.
TerminationSlots == {1, 2, 3, 5, 6}

\* Static pricing with no iteration bound, on graphs with a cycle and on the
\* graph with no nodes.
InitTermination ==
    InitOver(GraphsOn(TerminationSlots, StepCosts, {TRUE}) \cup { EmptyGraph },
             { << >> }, {0}, {"fifo", "lifo"})

NextTermination ==
    \/ NoCallYet /\ \E start, goal \in Nodes : FirstCall(start, goal, {})
    \/ RepeatCall
    \/ LoopIter
    \/ ExpandEdge
    \/ Finish

\* The steps of a call are taken one after the other until it returns or
\* throws.
SpecTermination ==
    /\ InitTermination
    /\ [][NextTermination]_vars
    /\ WF_vars(LoopIter)
    /\ WF_vars(ExpandEdge)
    /\ WF_vars(Finish)

\* Every cost getTraversalCost has computed so far is strictly positive: no
\* call has met an edge of cost zero or less.
PricedPositive ==
    /\ ~loc.bad_priced
    /\ ~loc.last_priced.thrown
    /\ \A i \in Calls : history[i].kind = "NoValidGraph" => graph.nodes = {}

\* No node occurs twice in s.
NoRepeats(s) == \A i, j \in 1 .. Len(s) : s[i] = s[j] => i = j

\* C21: with no iteration bound and every computed cost positive, a call
\* ends, with a route, NoRoute or NoValidGraph; the for loop goes over the
\* edges of a node at most once; and the queue is emptied in the end.
C21_SearchTerminates ==
    /\ [](PricedPositive =>
            /\ NoRepeats(loc.expanded)
            /\ \A i \in Calls :
                   history[i].kind \in {"Route", "NoRoute", "NoValidGraph"})
    /\ (pc # "idle") ~> (pc = "idle" \/ ~PricedPositive)
    /\ (queue_ # << >>) ~> (queue_ = << >> \/ ~PricedPositive)

\* A call on a graph with the cycle 2-3-2 has gone over the edges of both
\* nodes of the cycle, dropped a stale element, and returned a route.
C21_Witness ==
    /\ PricedPositive
    /\ pc = "idle"
    /\ queue_ = << >>
    /\ \E i \in Calls :
           /\ history[i].kind = "Route"
           /\ history[i].iterations > Len(loc.expanded) + 1
    /\ \E i, j \in 1 .. Len(loc.expanded) :
           loc.expanded[i] = 2 /\ loc.expanded[j] = 3
    /\ \E e, f \in EdgePtrs(graph) :
           /\ graph.edges[e].start = 2 /\ graph.edges[e].end = 3
           /\ graph.edges[f].start = 3 /\ graph.edges[f].end = 2

====
